---- MODULE Spec2Model ----
(***************************************************************************)
(* Model of the Graphite delivery client of go-graphite: the bounded       *)
(* metric queue (a buffered Go channel), the producers calling SendMetric, *)
(* the Submit loop that drains, batches, serialises and writes with a      *)
(* bounded number of attempts, and the goroutine Submit starts to drain    *)
(* inbound bytes.                                                          *)
(*                                                                         *)
(* A Go select is modelled as the runtime executes it: one atomic poll     *)
(* that picks any ready case, or parks the goroutine on its channels; a    *)
(* parked goroutine is resumed by exactly one channel operation (a         *)
(* hand-off, a freed slot, or the closing of its Done channel), which      *)
(* fixes the case it will take.                                            *)
(*                                                                         *)
(* A string is a sequence of tokens: the separators ".", ";", "=", " ",    *)
(* "\n" and the texts between them.                                        *)
(***************************************************************************)
EXTENDS Integers, Sequences, FiniteSets, TLC

\* ------------------------------------------------------------------ bounds
\* Number of concurrent producers calling SendMetric.
NumProducers == 2
\* Total number of SendMetric calls made in one behaviour.
MaxSends == 2
\* Largest explicit option value handed to NewClient.
MaxOpt == 2
\* Number of metric identities made (a root and those derived from it).
MaxMetas == 4
\* Number of Metric values built from the identities.
MaxQueued == 2

\* --------------------------------------------------------- program constants
DefaultMaxBufferSize == 1000
DefaultMaxMetricsPerMessage == 1
DefaultMaxTries == 3

Producers == 1..NumProducers

\* A nil net.Conn / the connection handed in by WithConnection.
NilConn == "nil"
TheConn == "conn"

\* Error values are chains of messages, outermost first; nil is the empty chain.
Nil == << >>
ErrNoAddress == <<"graphite: no address specified for Graphite server">>
ErrCanceled == <<"context canceled">>
WriteErrors == {<<"EPIPE">>, <<"ETIMEDOUT">>}
\* A call that has not returned.
Pending == <<"pending">>

\* fmt.Errorf(msg + ": %w", e)
Errorf(msg, e) == msg \o e

\* ------------------------------------------------------------ Metric model
\* The timestamps producers pass: an instant is seconds plus nanoseconds.
Time(sec, nsec) == [sec |-> sec, nsec |-> nsec]

\* time.Time.Unix(): the seconds of the instant.
Unix(t) == t.sec

\* The (metric, value, timestamp) triples producer p passes to SendMetric:
\* each producer reports its own metric, as the reporters of cmd/cpu do.
\* Tags is a map: a set of <<key, value>> pairs with unique keys.
SendInputs(p) ==
    IF p = 1
    THEN { [Name |-> <<"cpu", "idle">>, Tags |-> {<<"host", "a">>},
            Value |-> "1", Timestamp |-> Time(1700000000, 0)] }
    ELSE { [Name |-> <<"cpu">>, Tags |-> {},
            Value |-> "2", Timestamp |-> Time(1700000001, 500)] }

\* All orders in which a range over the map S can visit its entries.
MapOrders(S) ==
    { f \in [1..Cardinality(S) -> S] :
        \A a, b \in 1..Cardinality(S) : a # b => f[a] # f[b] }

RECURSIVE NameTail(_)
\* The loop over m.Name[1:]: a '.' and the segment, for each segment.
NameTail(names) ==
    IF names = << >> THEN << >>
    ELSE <<".", Head(names)>> \o NameTail(Tail(names))

RECURSIVE TagClauses(_)
\* The loop over m.Tags in one visiting order: ";tag=value" per entry.
TagClauses(order) ==
    IF order = << >> THEN << >>
    ELSE <<";", Head(order)[1], "=", Head(order)[2]>> \o TagClauses(Tail(order))

\* Metric.String() for one visiting order of the tag map.
StringIn(m, order) ==
    <<m.Name[1]>> \o NameTail(Tail(m.Name)) \o TagClauses(order)
        \o <<" ", m.Value, " ", ToString(Unix(m.Timestamp))>>

\* The lines Metric.String() can return (the map order is not fixed).
String(m) == { StringIn(m, order) : order \in MapOrders(m.Tags) }

RECURSIVE Join(_, _)
\* strings.Join(elems, sep)
Join(elems, sep) ==
    IF elems = << >> THEN << >>
    ELSE IF Len(elems) = 1 THEN elems[1]
    ELSE elems[1] \o <<sep>> \o Join(Tail(elems), sep)

\* strings.HasSuffix(str, "\n")
HasSuffix(str, suffix) == Len(str) > 0 /\ str[Len(str)] = suffix

\* SubmitMetricsString sending the string as it is given.
EnsureLineTermination_Skip(str) == str

\* The head of SubmitMetricsString: ensure line termination.
EnsureLineTermination(str) ==
    IF ~HasSuffix(str, "\n") THEN str \o <<"\n">> ELSE str

\* The zero Metric.
NoMetric ==
    [seq |-> 0, Name |-> << >>, Tags |-> {}, Value |-> "",
     Timestamp |-> Time(0, 0)]

\* ------------------------------------------------------------ construction
\* The nil client: NewClient returned no client.
NoClient ==
    [MaxBufferSize |-> 0, MaxMetricsPerMessage |-> 0, MaxTries |-> 0,
     Conn |-> NilConn, Addr |-> ""]

\* The option values NewClient can be handed.
OptInts == -1..MaxOpt

\* The options NewClient is called with.  The buffer and batch sizes vary
\* together (with a connection and one write attempt); the attempt limit, and
\* the connection and address, each vary with the other options unset.
Options ==
    { o \in [MaxBufferSize : OptInts, MaxMetricsPerMessage : OptInts,
             MaxTries : OptInts, Conn : {NilConn, TheConn},
             Addr : {"", "addr"}] :
        \/ o.MaxTries = 1 /\ o.Conn = TheConn /\ o.Addr = ""
        \/ /\ o.MaxBufferSize = 0 /\ o.MaxMetricsPerMessage = 0
           /\ o.Conn = TheConn /\ o.Addr = ""
        \/ o.MaxBufferSize = 0 /\ o.MaxMetricsPerMessage = 0 /\ o.MaxTries = 0 }

\* setDefaults leaving the numeric options as given.
setDefaults_NoDefault(o) ==
    [opts |-> o,
     err  |-> IF o.Conn = NilConn /\ o.Addr = "" THEN ErrNoAddress ELSE Nil]

\* clientOptions.setDefaults: the options after defaulting, and the error.
setDefaults(o) ==
    LET d == [o EXCEPT
                 !.MaxBufferSize =
                     IF @ = 0 THEN DefaultMaxBufferSize ELSE @,
                 !.MaxMetricsPerMessage =
                     IF @ = 0 THEN DefaultMaxMetricsPerMessage ELSE @,
                 !.MaxTries = IF @ = 0 THEN DefaultMaxTries ELSE @]
    IN  [opts |-> d,
         err  |-> IF d.Conn = NilConn /\ d.Addr = "" THEN ErrNoAddress
                  ELSE Nil]

\* NewClient: the client and error returned, and the capacity of the channel
\* it made; make(chan Metric, n) panics for a negative n.
NewClient(o) ==
    LET r == setDefaults(o) IN
    IF r.err # Nil
    THEN [client |-> NoClient, err |-> r.err, panic |-> FALSE, cap |-> 0]
    ELSE IF r.opts.MaxBufferSize < 0
         THEN [client |-> NoClient, err |-> Nil, panic |-> TRUE, cap |-> 0]
         ELSE [client |-> r.opts, err |-> Nil, panic |-> FALSE,
               cap |-> r.opts.MaxBufferSize]

\* No call of NewClient has returned.
NoResult == [client |-> NoClient, err |-> Nil, panic |-> FALSE, cap |-> 0]

\* No batch is being formed.
NoForm == [enq |-> 0, queue |-> << >>]

\* ------------------------------------------------------------------- state
VARIABLES
    c,              \* the client NewClient returned (its clientOptions)
    newErr,         \* the error NewClient returned
    queuedMetrics,  \* c.queuedMetrics: the channel's buffer, oldest first
    sendq,          \* producers parked on the full channel, oldest first
    ctxDone,        \* Submit's context is cancelled
    pctxDone,       \* pctxDone[p]: the context of p's running call is cancelled
    spc,            \* Submit's position
    metricStrings,  \* Submit's metricStrings
    i,              \* Submit's fill-loop counter
    furtherMetrics, \* Submit's furtherMetrics
    recvd,          \* the metric handed to Submit while it was parked
    str,            \* SubmitMetricsString's str
    tries,          \* SubmitMetricsString's loop counter i
    err,            \* SubmitMetricsString's err
    serr,           \* the error Submit returned
    ppc,            \* ppc[p]: the position of producer p
    pm,             \* pm[p]: the queuedMetric of p's call (seq: the call's number)
    dpc,            \* the position of the goroutine Submit started
    panicked,       \* the process died of a runtime panic
    \* history
    nsends,         \* SendMetric calls made so far
    ret,            \* ret[k]: what the k-th SendMetric call returned
    enqLog,         \* the samples in the order their enqueue completed
    deqLog,         \* the samples in the order Submit received them
    form,           \* the queue and Len(enqLog) when Submit began its batch
    batch,          \* the samples behind metricStrings
    batches,        \* the batches handed to SubmitMetricsString, in order
    attempts,       \* Conn.Write calls made for the current batch
    written,        \* the messages written successfully, with their batch
    \* the metric identities of a producer (MetricSpec)
    arrays,         \* the backing arrays of the Name slices, by address
    metas,          \* the MetricMetadata values made so far
    queued,         \* the Metric values built from them by SendMetric
    lines,          \* lines[k]: the lines String() returned for queued[k]
    \* a call of NewClient (NewClientSpec)
    opts,           \* the options the call is given
    made            \* what the call returned

\* The client, the variables of the specifications of single operations,
\* the locals of Submit, the histories of calls and of writes, and the state
\* of the queue, of Submit and of the producers.
cvars == <<c, newErr>>
pvars == <<arrays, metas, queued, lines, opts, made>>
lvars == <<metricStrings, i, furtherMetrics, recvd, str, tries, err, serr>>
callvars == <<nsends, ret>>
wvars == <<batches, attempts, written>>
qvars == <<queuedMetrics, sendq, ctxDone, pctxDone, spc, lvars, ppc, pm, dpc,
           panicked, callvars, enqLog, deqLog, form, batch, wvars>>
vars == <<cvars, pvars, qvars>>

\* Nothing has been sent or submitted.
Fresh ==
    /\ queuedMetrics = << >>
    /\ sendq = << >>
    /\ ctxDone = FALSE
    /\ pctxDone = [p \in Producers |-> FALSE]
    /\ spc = "idle"
    /\ metricStrings = << >>
    /\ i = 0
    /\ furtherMetrics = FALSE
    /\ recvd = NoMetric
    /\ str = << >>
    /\ tries = 0
    /\ err = Nil
    /\ serr = Nil
    /\ ppc = [p \in Producers |-> "idle"]
    /\ pm = [p \in Producers |-> NoMetric]
    /\ dpc = "none"
    /\ nsends = 0
    /\ ret = << >>
    /\ enqLog = << >>
    /\ deqLog = << >>
    /\ form = NoForm
    /\ batch = << >>
    /\ batches = << >>
    /\ attempts = 0
    /\ written = << >>

\* No metric identity has been made.
NoMetas ==
    /\ arrays = << >>
    /\ metas = << >>
    /\ queued = << >>
    /\ lines = << >>

Init ==
    /\ \E o \in Options :
          LET r == NewClient(o) IN
          /\ c = r.client
          /\ newErr = r.err
          /\ panicked = r.panic
    /\ Fresh
    /\ NoMetas
    /\ opts = NoClient
    /\ made = NoResult

\* The process runs: a client exists and no goroutine has panicked.
Running == c # NoClient /\ ~panicked

\* --------------------------------------------------- the channel operations
\* A receive can proceed: the buffer holds a metric.  (Senders park only on
\* a full buffer, and the capacity is at least 1.)
RecvReady == Len(queuedMetrics) > 0

\* A send that never waits for a slot.
SendReady_Always == TRUE

\* A send can proceed: Submit is parked in its receive, or a slot is free.
SendReady == spc = "parked" \/ Len(queuedMetrics) < c.MaxBufferSize

\* A send that puts the metric in front of the waiting ones.
BufPut_Front(q, m) == <<m>> \o q

\* A send into the buffer: the metric takes the slot behind the newest one.
BufPut(q, m) == Append(q, m)

\* A receive that leaves the metric it returns in the buffer.
BufRest_Keep(q) == q

\* A receive from the buffer: what is left once the oldest metric is taken.
BufRest(q) == Tail(q)

\* chanrecv on a non-empty buffer: the head leaves; the oldest parked sender,
\* if any, has its metric moved into the freed slot and is made runnable.
ChanRecv ==
    IF sendq = << >>
    THEN /\ queuedMetrics' = BufRest(queuedMetrics)
         /\ UNCHANGED <<sendq, ppc, enqLog>>
    ELSE LET p == Head(sendq) IN
         /\ queuedMetrics' = BufPut(BufRest(queuedMetrics), pm[p])
         /\ sendq' = Tail(sendq)
         /\ ppc' = [ppc EXCEPT ![p] = "sent"]
         /\ enqLog' = Append(enqLog, pm[p])

\* A cancelled producer left linked to the channel.
Without_Keep(q, p) == q

\* The sequence q without the element p.
Without(q, p) == SelectSeq(q, LAMBDA x : x # p)

\* ------------------------------------------------------------------ Submit
\* Submit is called: it starts the goroutine that copies c.Conn to stderr.
SubmitCall ==
    /\ Running /\ spc = "idle"
    /\ spc' = "loop"
    /\ dpc' = "spawned"
    /\ UNCHANGED <<cvars, pvars, queuedMetrics, sendq, ctxDone, pctxDone, lvars, ppc,
                   pm, panicked, callvars, enqLog, deqLog, form, batch,
                   wvars>>

\* io.Copy(os.Stderr, c.Conn) in the goroutine: reading a nil Conn panics.
DrainInbound ==
    /\ Running /\ dpc = "spawned"
    /\ IF c.Conn = NilConn
       THEN panicked' = TRUE /\ dpc' = "panic"
       ELSE panicked' = panicked /\ dpc' = "copying"
    /\ UNCHANGED <<cvars, pvars, queuedMetrics, sendq, ctxDone, pctxDone, spc, lvars,
                   ppc, pm, callvars, enqLog, deqLog, form, batch, wvars>>

\* Top of the loop: make([]string, 0, c.MaxMetricsPerMessage) panics for a
\* negative capacity.
SubmitMake ==
    /\ Running /\ spc = "loop"
    /\ IF c.MaxMetricsPerMessage < 0
       THEN /\ panicked' = TRUE /\ spc' = "panic"
            /\ UNCHANGED <<metricStrings, batch, form>>
       ELSE /\ panicked' = panicked /\ spc' = "select"
            /\ metricStrings' = << >>
            /\ batch' = << >>
            /\ form' = [enq |-> Len(enqLog), queue |-> queuedMetrics]
    /\ UNCHANGED <<cvars, pvars, queuedMetrics, sendq, ctxDone, pctxDone, i,
                   furtherMetrics, recvd, str, tries, err, serr, ppc, pm, dpc,
                   callvars, enqLog, deqLog, wvars>>

\* Submit appends metric.String() for the metric m it received.
TakeMetric(m) ==
    /\ \E line \in String(m) : metricStrings' = Append(metricStrings, line)
    /\ batch' = Append(batch, m)

\* Submit returns the error of a cancelled context.
ReturnCancelled ==
    /\ serr' = Errorf(<<"graphite: context cancelled while submitting">>,
                      ErrCanceled)
    /\ spc' = "returned"
    /\ form' = NoForm

\* First select, case metric := <-c.queuedMetrics.
SubmitSelectRecv ==
    /\ Running /\ spc = "select"
    /\ RecvReady
    /\ ChanRecv
    /\ TakeMetric(Head(queuedMetrics))
    /\ deqLog' = Append(deqLog, Head(queuedMetrics))
    /\ furtherMetrics' = TRUE
    /\ i' = 1
    /\ spc' = "fill"
    /\ UNCHANGED <<cvars, pvars, ctxDone, pctxDone, recvd, str, tries, err, serr, pm,
                   dpc, panicked, callvars, form, wvars>>

\* First select, case <-ctx.Done().
SubmitSelectDone ==
    /\ Running /\ spc = "select"
    /\ ctxDone
    /\ ReturnCancelled
    /\ UNCHANGED <<cvars, pvars, queuedMetrics, sendq, ctxDone, pctxDone,
                   metricStrings, i, furtherMetrics, recvd, str, tries, err,
                   ppc, pm, dpc, panicked, callvars, enqLog, deqLog, batch,
                   wvars>>

\* First select, no case ready: Submit parks on both channels.
SubmitSelectPark ==
    /\ Running /\ spc = "select"
    /\ ~RecvReady /\ ~ctxDone
    /\ spc' = "parked"
    /\ UNCHANGED <<cvars, pvars, queuedMetrics, sendq, ctxDone, pctxDone, lvars, ppc,
                   pm, dpc, panicked, callvars, enqLog, deqLog, form, batch,
                   wvars>>

\* Submit resumes from the first select with the metric a sender handed it.
SubmitResumeRecv ==
    /\ Running /\ spc = "woken"
    /\ TakeMetric(recvd)
    /\ recvd' = NoMetric
    /\ furtherMetrics' = TRUE
    /\ i' = 1
    /\ spc' = "fill"
    /\ UNCHANGED <<cvars, pvars, queuedMetrics, sendq, ctxDone, pctxDone, str, tries,
                   err, serr, ppc, pm, dpc, panicked, callvars, enqLog, deqLog,
                   form, wvars>>

\* Submit resumes from the first select because ctx.Done() was closed.
SubmitResumeDone ==
    /\ Running /\ spc = "wokendone"
    /\ ReturnCancelled
    /\ UNCHANGED <<cvars, pvars, queuedMetrics, sendq, ctxDone, pctxDone,
                   metricStrings, i, furtherMetrics, recvd, str, tries, err,
                   ppc, pm, dpc, panicked, callvars, enqLog, deqLog, batch,
                   wvars>>

\* The fill loop stopping one sample short of the batch size.
FillCond_Short == furtherMetrics /\ i < c.MaxMetricsPerMessage - 1

\* The fill loop running one iteration too many.
FillCond_OffByOne == furtherMetrics /\ i <= c.MaxMetricsPerMessage

\* The condition of the fill loop.
FillCond == furtherMetrics /\ i < c.MaxMetricsPerMessage

\* Fill loop, case metric := <-c.queuedMetrics.
SubmitFillRecv ==
    /\ Running /\ spc = "fill" /\ FillCond
    /\ RecvReady
    /\ ChanRecv
    /\ TakeMetric(Head(queuedMetrics))
    /\ deqLog' = Append(deqLog, Head(queuedMetrics))
    /\ i' = i + 1
    /\ UNCHANGED <<cvars, pvars, ctxDone, pctxDone, spc, furtherMetrics, recvd, str,
                   tries, err, serr, pm, dpc, panicked, callvars, form,
                   wvars>>

\* Fill loop, case <-ctx.Done(): Submit returns, dropping metricStrings.
SubmitFillDone ==
    /\ Running /\ spc = "fill" /\ FillCond
    /\ ctxDone
    /\ ReturnCancelled
    /\ UNCHANGED <<cvars, pvars, queuedMetrics, sendq, ctxDone, pctxDone,
                   metricStrings, i, furtherMetrics, recvd, str, tries, err,
                   ppc, pm, dpc, panicked, callvars, enqLog, deqLog, batch,
                   wvars>>

\* Fill loop, default: nothing ready, stop filling.
SubmitFillDefault ==
    /\ Running /\ spc = "fill" /\ FillCond
    /\ ~RecvReady /\ ~ctxDone
    /\ furtherMetrics' = FALSE
    /\ i' = i + 1
    /\ UNCHANGED <<cvars, pvars, queuedMetrics, sendq, ctxDone, pctxDone, spc,
                   metricStrings, recvd, str, tries, err, serr, ppc, pm, dpc,
                   panicked, callvars, enqLog, deqLog, form, batch, wvars>>

\* The fill loop is over: Submit calls SubmitMetricsString with the joined
\* lines, which terminates the string and starts its attempt loop.
SubmitJoin ==
    /\ Running /\ spc = "fill" /\ ~FillCond
    /\ str' = EnsureLineTermination(Join(metricStrings, "\n"))
    /\ tries' = 0
    /\ err' = Nil
    /\ spc' = "write"
    /\ batches' = Append(batches, batch)
    /\ attempts' = 0
    /\ UNCHANGED <<cvars, pvars, queuedMetrics, sendq, ctxDone, pctxDone,
                   metricStrings, i, furtherMetrics, recvd, serr, ppc, pm, dpc,
                   panicked, callvars, enqLog, deqLog, form, batch, written>>

\* The attempt loop giving up one attempt early.
MoreTries_OffByOne == tries < c.MaxTries - 1

\* The condition of the attempt loop of SubmitMetricsString.
MoreTries == tries < c.MaxTries

\* c.Conn.Write succeeds: SubmitMetricsString returns nil, Submit loops.
SubmitWriteOk ==
    /\ Running /\ spc = "write" /\ MoreTries
    /\ c.Conn # NilConn
    /\ err' = Nil
    /\ attempts' = attempts + 1
    /\ written' = Append(written, [msg |-> str, batch |-> batch])
    /\ spc' = "loop"
    /\ form' = NoForm
    /\ UNCHANGED <<cvars, pvars, queuedMetrics, sendq, ctxDone, pctxDone,
                   metricStrings, i, furtherMetrics, recvd, str, tries, serr,
                   ppc, pm, dpc, panicked, callvars, enqLog, deqLog, batch,
                   batches>>

\* c.Conn.Write fails: the next iteration of the attempt loop.
SubmitWriteFail ==
    /\ Running /\ spc = "write" /\ MoreTries
    /\ c.Conn # NilConn
    /\ \E e \in WriteErrors : err' = e
    /\ attempts' = attempts + 1
    /\ tries' = tries + 1
    /\ UNCHANGED <<cvars, pvars, queuedMetrics, sendq, ctxDone, pctxDone, spc,
                   metricStrings, i, furtherMetrics, recvd, str, serr, ppc, pm,
                   dpc, panicked, callvars, enqLog, deqLog, form, batch,
                   batches, written>>

\* c.Conn.Write on a nil Conn panics.
SubmitWriteNil ==
    /\ Running /\ spc = "write" /\ MoreTries
    /\ c.Conn = NilConn
    /\ panicked' = TRUE
    /\ spc' = "panic"
    /\ UNCHANGED <<cvars, pvars, queuedMetrics, sendq, ctxDone, pctxDone, lvars, ppc,
                   pm, dpc, callvars, enqLog, deqLog, form, batch, wvars>>

\* The error Submit returns when SubmitMetricsString gave up with error e.
SubmitFailed(e) ==
    Errorf(<<"graphite: failed to submit metrics">>,
           Errorf(<<"graphite: failed to send metrics after %d tries",
                    ToString(c.MaxTries)>>, e))

\* Submit swallowing the failure and going on with the next batch.
SubmitWriteExhausted_Continue ==
    /\ Running /\ spc = "write" /\ ~MoreTries
    /\ spc' = "loop"
    /\ UNCHANGED <<cvars, pvars, queuedMetrics, sendq, ctxDone, pctxDone, lvars, ppc,
                   pm, dpc, panicked, callvars, enqLog, deqLog, form, batch,
                   wvars>>

\* The attempt loop is over without a successful write: SubmitMetricsString
\* returns the wrapped last error, and Submit returns it wrapped again.
SubmitWriteExhausted ==
    /\ Running /\ spc = "write" /\ ~MoreTries
    /\ serr' = SubmitFailed(err)
    /\ spc' = "returned"
    /\ form' = NoForm
    /\ UNCHANGED <<cvars, pvars, queuedMetrics, sendq, ctxDone, pctxDone,
                   metricStrings, i, furtherMetrics, recvd, str, tries, err,
                   ppc, pm, dpc, panicked, callvars, enqLog, deqLog,
                   batch, wvars>>

\* Submit's context is cancelled: Done is closed, which resumes a parked
\* Submit with the Done case.
CancelSubmit ==
    /\ Running /\ ~ctxDone
    /\ ctxDone' = TRUE
    /\ spc' = IF spc = "parked" THEN "wokendone" ELSE spc
    /\ UNCHANGED <<cvars, pvars, queuedMetrics, sendq, pctxDone, lvars, ppc, pm, dpc,
                   panicked, callvars, enqLog, deqLog, form, batch, wvars>>

\* -------------------------------------------------------------- SendMetric
\* A producer calls SendMetric with a metric, value and timestamp and a
\* context that is not cancelled yet; it builds queuedMetric.
SendMetricCall(p) ==
    /\ Running /\ ppc[p] = "idle" /\ nsends < MaxSends
    /\ \E in \in SendInputs(p) :
         pm' = [pm EXCEPT ![p] =
                  [seq |-> nsends + 1, Name |-> in.Name, Tags |-> in.Tags,
                   Value |-> in.Value, Timestamp |-> in.Timestamp]]
    /\ pctxDone' = [pctxDone EXCEPT ![p] = FALSE]
    /\ nsends' = nsends + 1
    /\ ret' = Append(ret, Pending)
    /\ ppc' = [ppc EXCEPT ![p] = "select"]
    /\ UNCHANGED <<cvars, pvars, queuedMetrics, sendq, ctxDone, spc, lvars, dpc,
                   panicked, enqLog, deqLog, form, batch, wvars>>

\* SendMetric returns e: the call of p is over.
Return(p, e) ==
    /\ ret' = [ret EXCEPT ![pm[p].seq] = e]
    /\ pm' = [pm EXCEPT ![p] = NoMetric]
    /\ pctxDone' = [pctxDone EXCEPT ![p] = FALSE]
    /\ ppc' = [ppc EXCEPT ![p] = "idle"]

\* select, case c.queuedMetrics <- queuedMetric: the metric goes straight to
\* a parked Submit, or into a free slot of the buffer; SendMetric returns nil.
SendMetricSend(p) ==
    /\ Running /\ ppc[p] = "select"
    /\ SendReady
    /\ IF spc = "parked"
       THEN /\ recvd' = pm[p]
            /\ spc' = "woken"
            /\ deqLog' = Append(deqLog, pm[p])
            /\ UNCHANGED queuedMetrics
       ELSE /\ queuedMetrics' = BufPut(queuedMetrics, pm[p])
            /\ UNCHANGED <<recvd, spc, deqLog>>
    /\ enqLog' = Append(enqLog, pm[p])
    /\ Return(p, Nil)
    /\ UNCHANGED <<cvars, pvars, sendq, ctxDone, metricStrings, i, furtherMetrics,
                   str, tries, err, serr, dpc, panicked, nsends, form,
                   batch, wvars>>

\* select, case <-ctx.Done(): SendMetric returns ctx.Err().
SendMetricDone(p) ==
    /\ Running /\ ppc[p] = "select"
    /\ pctxDone[p]
    /\ Return(p, ErrCanceled)
    /\ UNCHANGED <<cvars, pvars, queuedMetrics, sendq, ctxDone, spc, lvars, dpc,
                   panicked, nsends, enqLog, deqLog, form, batch,
                   wvars>>

\* select, no case ready: the producer parks on both channels.
SendMetricPark(p) ==
    /\ Running /\ ppc[p] = "select"
    /\ ~SendReady /\ ~pctxDone[p]
    /\ sendq' = Append(sendq, p)
    /\ ppc' = [ppc EXCEPT ![p] = "parked"]
    /\ UNCHANGED <<cvars, pvars, queuedMetrics, ctxDone, pctxDone, spc, lvars, pm,
                   dpc, panicked, callvars, enqLog, deqLog, form, batch,
                   wvars>>

\* The producer resumes after a receive took its metric into the buffer.
SendMetricResumeSent(p) ==
    /\ Running /\ ppc[p] = "sent"
    /\ Return(p, Nil)
    /\ UNCHANGED <<cvars, pvars, queuedMetrics, sendq, ctxDone, spc, lvars, dpc,
                   panicked, nsends, enqLog, deqLog, form, batch,
                   wvars>>

\* The producer resumes because ctx.Done() was closed while it was parked.
SendMetricResumeDone(p) ==
    /\ Running /\ ppc[p] = "cancelled"
    /\ Return(p, ErrCanceled)
    /\ UNCHANGED <<cvars, pvars, queuedMetrics, sendq, ctxDone, spc, lvars, dpc,
                   panicked, nsends, enqLog, deqLog, form, batch,
                   wvars>>

\* The context of p's running call is cancelled: Done is closed, which
\* resumes a parked producer with the Done case and unlinks it from the
\* channel.
CancelSend(p) ==
    /\ Running /\ ppc[p] \in {"select", "parked"} /\ ~pctxDone[p]
    /\ pctxDone' = [pctxDone EXCEPT ![p] = TRUE]
    /\ IF ppc[p] = "parked"
       THEN /\ ppc' = [ppc EXCEPT ![p] = "cancelled"]
            /\ sendq' = Without(sendq, p)
       ELSE UNCHANGED <<ppc, sendq>>
    /\ UNCHANGED <<cvars, pvars, queuedMetrics, ctxDone, spc, lvars, pm, dpc,
                   panicked, callvars, enqLog, deqLog, form, batch, wvars>>

\* ------------------------------------------------------------ specification
SubmitStep ==
    \/ SubmitCall
    \/ SubmitMake
    \/ SubmitSelectRecv
    \/ SubmitSelectDone
    \/ SubmitSelectPark
    \/ SubmitResumeRecv
    \/ SubmitResumeDone
    \/ SubmitFillRecv
    \/ SubmitFillDone
    \/ SubmitFillDefault
    \/ SubmitJoin
    \/ SubmitWriteOk
    \/ SubmitWriteFail
    \/ SubmitWriteNil
    \/ SubmitWriteExhausted

Next ==
    \/ SubmitCall
    \/ DrainInbound
    \/ SubmitMake
    \/ SubmitSelectRecv
    \/ SubmitSelectDone
    \/ SubmitSelectPark
    \/ SubmitResumeRecv
    \/ SubmitResumeDone
    \/ SubmitFillRecv
    \/ SubmitFillDone
    \/ SubmitFillDefault
    \/ SubmitJoin
    \/ SubmitWriteOk
    \/ SubmitWriteFail
    \/ SubmitWriteNil
    \/ SubmitWriteExhausted
    \/ CancelSubmit
    \/ \E p \in Producers : SendMetricCall(p)
    \/ \E p \in Producers : SendMetricSend(p)
    \/ \E p \in Producers : SendMetricDone(p)
    \/ \E p \in Producers : SendMetricPark(p)
    \/ \E p \in Producers : SendMetricResumeSent(p)
    \/ \E p \in Producers : SendMetricResumeDone(p)
    \/ \E p \in Producers : CancelSend(p)

Spec == Init /\ [][Next]_vars

\* The steps of producer p inside a SendMetric call.
SendMetricStep(p) ==
    \/ SendMetricSend(p)
    \/ SendMetricDone(p)
    \/ SendMetricPark(p)
    \/ SendMetricResumeSent(p)
    \/ SendMetricResumeDone(p)

\* Go schedules every runnable goroutine: Submit and the goroutine it started
\* keep taking steps while they can, and so does every producer inside a call.
FairSpec ==
    /\ Spec
    /\ WF_vars(SubmitStep)
    /\ WF_vars(DrainInbound)
    /\ \A p \in Producers : WF_vars(SendMetricStep(p))

\* ------------------------------------------------ a call of NewClient alone
\* Every combination of options NewClient can be given.
AllOptions ==
    [MaxBufferSize : OptInts, MaxMetricsPerMessage : OptInts,
     MaxTries : OptInts, Conn : {NilConn, TheConn}, Addr : {"", "addr"}]

NewClientInit ==
    /\ c = NoClient /\ newErr = Nil /\ panicked = FALSE
    /\ Fresh
    /\ NoMetas
    /\ opts \in AllOptions
    /\ made = NoResult

\* NewClient(opts) is called and returns (or panics).
NewClientCall ==
    /\ made = NoResult
    /\ made' = NewClient(opts)
    /\ UNCHANGED <<cvars, arrays, metas, queued, lines, opts, qvars>>

NewClientNext == NewClientCall

NewClientSpec == NewClientInit /\ [][NewClientNext]_vars

\* ------------------------------------------- metric identities of a producer
\* A slice is a header (array address, length, capacity) over a backing
\* array; copying a MetricMetadata copies the header, not the array.
\* The elements of the slice with header h.
NameOf(h) == SubSeq(arrays[h.arr], 1, h.len)

\* strings.ToLower
ToLower(name) == IF name = "User" THEN "user" ELSE name

\* The Name slices a producer starts from: a literal or the result of
\* strings.Split, whose capacity is its length.
RootNames == { <<"gopsutil", "cpu">>, <<"cpu">> }

\* The tag maps of the identities.
TagMaps == { {}, {<<"host", "a">>}, {<<"host", "a">>, <<"dc", "x">>} }

\* The segment names SubMetric is called with.
Segments == { "User", "idle" }

\* The capacities append may give the array it allocates for a slice of
\* length n and capacity k that is full: at least n + 1; the runtime doubles.
GrowCaps(n, k) == { n + 1, IF 2 * k > n + 1 THEN 2 * k ELSE n + 1 }

\* An array of capacity k holding the elements of q.
ArrayOf(q, k) == [j \in 1..k |-> IF j <= Len(q) THEN q[j] ELSE ""]

MetricInit ==
    /\ c = NoClient /\ newErr = Nil /\ panicked = FALSE
    /\ Fresh
    /\ opts = NoClient /\ made = NoResult
    /\ \E name \in RootNames, tags \in TagMaps :
          /\ arrays = <<name>>
          /\ metas = << [Name |-> [arr |-> 1, len |-> Len(name),
                                    cap |-> Len(name)],
                         Tags |-> tags, was |-> name] >>
    /\ queued = << >>
    /\ lines = << >>

\* append(s, x) writes into the array of s when it has room.
AppendInPlace(h) == h.len < h.cap

\* metas[k].SubMetric(name, metas[k].Tags): the child's Name is
\* append(m.Name, strings.ToLower(name)).
SubMetric(k, name) ==
    /\ Len(metas) < MaxMetas
    /\ LET h == metas[k].Name
           x == ToLower(name)
       IN  IF AppendInPlace(h)
           THEN /\ arrays' = [arrays EXCEPT ![h.arr][h.len + 1] = x]
                /\ metas' = Append(metas,
                       [Name |-> [h EXCEPT !.len = h.len + 1],
                        Tags |-> metas[k].Tags,
                        was  |-> Append(NameOf(h), x)])
           ELSE \E k2 \in GrowCaps(h.len, h.cap) :
                /\ arrays' = Append(arrays, ArrayOf(Append(NameOf(h), x), k2))
                /\ metas' = Append(metas,
                       [Name |-> [arr |-> Len(arrays) + 1, len |-> h.len + 1,
                                  cap |-> k2],
                        Tags |-> metas[k].Tags,
                        was  |-> Append(NameOf(h), x)])
    /\ UNCHANGED <<cvars, queued, lines, opts, made, qvars>>

\* SendMetric builds Metric{MetricMetadata: metas[k], ...}: a copy of the
\* identity's headers with a value and a timestamp.
BuildMetric(k) ==
    /\ Len(queued) < MaxQueued
    /\ queued' = Append(queued,
           [Name |-> metas[k].Name, Tags |-> metas[k].Tags, Value |-> "1",
            Timestamp |-> Time(1700000000, 0), was |-> NameOf(metas[k].Name)])
    /\ lines' = Append(lines, {})
    /\ UNCHANGED <<cvars, arrays, metas, opts, made, qvars>>

\* The Metric value q as String() reads it now.
Resolved(q) ==
    [Name |-> NameOf(queued[q].Name), Tags |-> queued[q].Tags,
     Value |-> queued[q].Value, Timestamp |-> queued[q].Timestamp]

\* Submit calls queued[q].String(); the line is recorded with the name read.
Serialize(q) ==
    /\ \E line \in String(Resolved(q)) :
          lines' = [lines EXCEPT ![q] =
                       @ \cup {[name |-> NameOf(queued[q].Name), line |-> line]}]
    /\ UNCHANGED <<cvars, arrays, metas, queued, opts, made, qvars>>

MetricNext ==
    \/ \E k \in 1..Len(metas), name \in Segments : SubMetric(k, name)
    \/ \E k \in 1..Len(metas) : BuildMetric(k)
    \/ \E q \in 1..Len(queued) : Serialize(q)

MetricSpec == MetricInit /\ [][MetricNext]_vars

\* ------------------------------------------------------- history operators
\* The call numbers of the samples in the sequence q.
Seqs(q) == { q[k].seq : k \in 1..Len(q) }

\* A sample occurs at most once in q.
NoDup(q) == \A a, b \in 1..Len(q) : a # b => q[a].seq # q[b].seq

\* The place of the sample m in the order of completed enqueues (0: none).
Pos(m) ==
    IF \E k \in 1..Len(enqLog) : enqLog[k] = m
    THEN CHOOSE k \in 1..Len(enqLog) : enqLog[k] = m
    ELSE 0

RECURSIVE Concat(_)
\* The concatenation of a sequence of sequences.
Concat(qs) == IF qs = << >> THEN << >> ELSE Head(qs) \o Concat(Tail(qs))

RECURSIVE Lines(_)
\* The lines of a message: the texts its "\n" tokens terminate.
Lines(msg) ==
    IF msg = << >> THEN << >>
    ELSE LET n == CHOOSE k \in 1..Len(msg) + 1 :
                      /\ k = Len(msg) + 1 \/ msg[k] = "\n"
                      /\ \A j \in 1..k - 1 : msg[j] # "\n"
         IN  <<SubSeq(msg, 1, n - 1)>> \o Lines(SubSeq(msg, n + 1, Len(msg)))

\* The batches of the messages written so far, in write order.
WrittenBatches == [k \in 1..Len(written) |-> written[k].batch]

\* The lines of the messages written so far, in write order.
WrittenLines == Concat([k \in 1..Len(written) |-> Lines(written[k].msg)])

Min(a, b) == IF a < b THEN a ELSE b

\* ============================================================== properties
\* Submit returned because the attempts of a batch were exhausted.
WriteFailed ==
    spc = "returned" /\ serr[1] = "graphite: failed to submit metrics"

\* Submit returned because its context was cancelled.
SubmitCancelled ==
    spc = "returned"
        /\ serr[1] = "graphite: context cancelled while submitting"

\* C1: a write that succeeds after k < MaxTries failed attempts on the batch
\* is attempt number k + 1, makes SubmitMetricsString return nil and sends
\* Submit back to the top of its loop; and Submit never gives a batch up
\* while fewer than MaxTries attempts on it have failed.
C1_RetryThenSuccess ==
    [][ /\ (Len(written') > Len(written)) =>
              /\ spc = "write" /\ attempts = tries /\ attempts < c.MaxTries
              /\ attempts' = attempts + 1
              /\ spc' = "loop" /\ serr' = Nil /\ err' = Nil
              /\ written'[Len(written')].batch = batches[Len(batches)]
        /\ (spc = "write" /\ spc' = "returned") => attempts >= c.MaxTries
      ]_vars

\* A batch was written by the last attempt allowed, after MaxTries - 1 >= 1
\* failures, and Submit is back at the top of its loop.
C1_Witness ==
    /\ spc = "loop" /\ written # << >>
    /\ c.MaxTries >= 2 /\ attempts = c.MaxTries /\ tries = c.MaxTries - 1

\* C2: once MaxTries attempts on a batch have failed, no further write is
\* made and Submit's next step returns the write failure; after Submit has
\* returned it receives no sample, hands over no batch and writes nothing.
C2_ExhaustedTerminates ==
    [][ /\ (spc = "write" /\ attempts >= c.MaxTries) =>
              /\ attempts' = attempts /\ written' = written
              /\ spc' # spc =>
                    /\ spc' = "returned"
                    /\ serr'[1] = "graphite: failed to submit metrics"
        /\ spc = "returned" =>
              /\ spc' = "returned" /\ serr' = serr
              /\ deqLog' = deqLog /\ batches' = batches
              /\ attempts' = attempts /\ written' = written
              /\ Len(queuedMetrics') >= Len(queuedMetrics)
      ]_vars

\* Submit gave up after MaxTries >= 2 failed attempts while a sample was
\* still waiting in the queue.
C2_Witness ==
    /\ WriteFailed /\ c.MaxTries >= 2 /\ attempts = c.MaxTries
    /\ queuedMetrics # << >>

\* C3: every batch handed to SubmitMetricsString holds between 1 and
\* MaxMetricsPerMessage samples, one line per sample.
C3_BatchSize ==
    /\ \A k \in 1..Len(batches) :
          /\ Len(batches[k]) >= 1
          /\ Len(batches[k]) <= c.MaxMetricsPerMessage
    /\ spc = "write" =>
          /\ Len(metricStrings) = Len(batch)
          /\ batch = batches[Len(batches)]

\* With a batch size of 2, a full batch holding a sample of each producer
\* was handed over.
C3_Witness ==
    /\ c.MaxMetricsPerMessage = 2 /\ batches # << >>
    /\ Len(batches[1]) = 2
    /\ batches[1][1].Name # batches[1][2].Name

\* C4: samples leave the queue in FIFO order.  The samples Submit received,
\* followed by those still queued, are the samples in the order their
\* enqueues completed; and the lines of the written messages, in write order,
\* are the lines of samples in increasing order of enqueue, one line per
\* sample of each written batch.
C4_FIFO ==
    /\ enqLog = deqLog \o queuedMetrics
    /\ LET s == Concat(WrittenBatches) IN
       /\ \A a, b \in 1..Len(s) : a < b => 0 < Pos(s[a]) /\ Pos(s[a]) < Pos(s[b])
       /\ Len(WrittenLines) = Len(s)
       /\ \A a \in 1..Len(s) : WrittenLines[a] \in String(s[a])

\* Two samples were written, and the one enqueued first came from the call
\* made second.
C4_Witness ==
    /\ Len(WrittenLines) = 2
    /\ Len(enqLog) = 2 /\ enqLog[1].seq = 2

\* C5: the queue never holds more than MaxBufferSize samples; a producer
\* waiting in SendMetric waits on a full queue with its sample outside it; a
\* sample enters a full queue only in the step in which Submit receives one;
\* and a call has returned success only if its sample was enqueued.
C5_Backpressure ==
    [][ /\ Len(queuedMetrics') <= c.MaxBufferSize
        /\ \A p \in Producers :
              /\ ppc'[p] = "parked" =>
                    /\ Len(queuedMetrics') = c.MaxBufferSize
                    /\ ret'[pm'[p].seq] = Pending
                    /\ pm'[p].seq \notin Seqs(enqLog')
              /\ ( /\ Len(queuedMetrics) = c.MaxBufferSize
                   /\ ppc[p] \in {"select", "parked"}
                   /\ pm[p].seq \in Seqs(enqLog') ) =>
                    /\ Len(deqLog') = Len(deqLog) + 1
                    /\ ret'[pm[p].seq] = Pending
        /\ \A k \in 1..Len(ret') : ret'[k] = Nil => k \in Seqs(enqLog')
      ]_vars

\* A producer that waited on a full queue had its sample taken into the slot
\* Submit freed, and has not returned yet.
C5_Witness ==
    \E p \in Producers :
        /\ ppc[p] = "sent" /\ ret[pm[p].seq] = Pending
        /\ pm[p].seq \in Seqs(queuedMetrics)
        /\ Len(queuedMetrics) = c.MaxBufferSize

\* C6: a SendMetric call whose token fires before its sample is placed in
\* the queue does not enqueue the sample and does not return success; a call
\* that returns the cancellation error has not enqueued its sample and its
\* return leaves the queue unchanged; a call returns success only with its
\* sample enqueued.
C6_CancelBeforeEnqueue ==
    [][ \A p \in Producers :
          ppc[p] \in {"select", "parked", "cancelled"} =>
              LET k == pm[p].seq IN
              /\ pctxDone[p] => k \notin Seqs(enqLog') /\ ret'[k] # Nil
              /\ ret'[k] = ErrCanceled =>
                    /\ k \notin Seqs(enqLog')
                    /\ queuedMetrics' = queuedMetrics
              /\ ret'[k] = Nil => k \in Seqs(enqLog')
      ]_vars

\* C7: once the token has fired on a Submit blocked on the empty queue,
\* Submit eventually returns the cancellation error; until it has, it
\* receives nothing and writes nothing, and its return leaves the queue as
\* it is.
C7_CancelWhileBlocked ==
    /\ (spc = "wokendone") ~> SubmitCancelled
    /\ [][ spc = "wokendone" =>
             /\ deqLog' = deqLog /\ batches' = batches
             /\ attempts' = attempts /\ written' = written
             /\ spc' # spc => queuedMetrics' = queuedMetrics
         ]_vars

\* C8: while no producer has enqueued since Submit began the batch with k
\* samples queued, the batch handed to the write is the oldest
\* min(k, MaxMetricsPerMessage) of them in enqueue order, the message has
\* exactly their lines, and the other samples are still queued; and Submit
\* never waits for a sample while it holds one.
C8_BatchOfQueued ==
    /\ spc \in {"parked", "woken", "wokendone"} =>
          batch = << >> /\ metricStrings = << >>
    /\ (spc = "write" /\ Len(enqLog) = form.enq) =>
          LET k == Len(form.queue)
              n == Min(k, c.MaxMetricsPerMessage)
          IN  /\ form.queue = SubSeq(enqLog, form.enq - k + 1, form.enq)
              /\ batch = SubSeq(form.queue, 1, n)
              /\ queuedMetrics = SubSeq(form.queue, n + 1, k)
              /\ Len(Lines(str)) = n
              /\ \A j \in 1..n : Lines(str)[j] \in String(form.queue[j])

\* With a batch size of 1 and two samples queued when the batch began, the
\* message is being written and no producer has enqueued since.
C8_Witness ==
    /\ spc = "write" /\ Len(enqLog) = form.enq
    /\ c.MaxMetricsPerMessage = 1 /\ Len(form.queue) = 2

\* C9: no sample is received twice or belongs to two batches, and a sample
\* Submit has received is never in the queue again, whatever the outcome of
\* the writes.
C9_AtMostOnce ==
    /\ NoDup(queuedMetrics) /\ NoDup(deqLog) /\ NoDup(Concat(batches))
    /\ Seqs(queuedMetrics) \cap Seqs(deqLog) = {}
    /\ Seqs(Concat(batches)) \subseteq Seqs(deqLog)

\* The one attempt allowed for the second batch has failed, after the first
\* batch was written, and Submit is about to give up.
C9_Witness ==
    /\ spc = "write" /\ err # Nil /\ ~MoreTries
    /\ Len(batches) = 2 /\ Len(written) = 1

\* The k-th call's sample is a sample of a written batch, and the line of
\* the message at its place is its line.
Delivered(k) ==
    \E w \in 1..Len(written) : \E j \in 1..Len(written[w].batch) :
        /\ written[w].batch[j].seq = k
        /\ written[w].batch[j] \in { enqLog[a] : a \in 1..Len(enqLog) }
        /\ Len(Lines(written[w].msg)) = Len(written[w].batch)
        /\ Lines(written[w].msg)[j] \in String(written[w].batch[j])

\* C10: unless Submit's token fires or the attempts of a batch are
\* exhausted, every sample whose SendMetric call returned success is
\* eventually in a written message, with its value and timestamp.
C10_EventualDelivery ==
    \A k \in 1..MaxSends :
        (Len(ret) >= k /\ ret[k] = Nil)
            ~> (Delivered(k) \/ ctxDone \/ WriteFailed)

\* C12: when Submit has returned the write failure, its error reports the
\* number of write attempts made for the batch and wraps the error of the
\* last attempt.
C12_ReportedAttempts ==
    WriteFailed =>
        /\ err \in WriteErrors
        /\ serr = <<"graphite: failed to submit metrics",
                    "graphite: failed to send metrics after %d tries",
                    ToString(attempts)>> \o err

\* The state of Submit and of the queue is the same after the step.
SubmitUndisturbed ==
    /\ spc' = spc /\ lvars' = lvars /\ ctxDone' = ctxDone
    /\ panicked' = panicked /\ dpc' = dpc
    /\ queuedMetrics' = queuedMetrics
    /\ enqLog' = enqLog /\ deqLog' = deqLog
    /\ batch' = batch /\ wvars' = wvars

\* C13: the firing of a SendMetric call's token and the call's return of the
\* cancellation error leave the state of Submit and the queue as they are,
\* and no sample of a call that returned the cancellation error ever enters
\* the queue.
C13_CancelledSendFrame ==
    [][ /\ \A p \in Producers :
              /\ (~pctxDone[p] /\ pctxDone'[p]) => SubmitUndisturbed
              /\ (ppc[p] # "idle" /\ ret'[pm[p].seq] = ErrCanceled) =>
                    SubmitUndisturbed
        /\ \A a \in 1..Len(enqLog') :
              /\ enqLog'[a].seq \in 1..Len(ret')
              /\ ret'[enqLog'[a].seq] # ErrCanceled
      ]_vars

\* The first call returned the cancellation error, and Submit, its token not
\* fired, has since written the sample of the second call.
C13_Witness ==
    /\ Len(ret) = 2 /\ ret[1] = ErrCanceled /\ ~ctxDone
    /\ written # << >> /\ written[1].batch[1].seq = 2
    /\ spc \notin {"returned", "panic"}

\* C14: a SendMetric call blocked on the full queue whose token fires
\* eventually returns the cancellation error.
C14_BlockedSendCancelled ==
    \A k \in 1..MaxSends :
        (\E p \in Producers : ppc[p] = "cancelled" /\ pm[p].seq = k)
            ~> (Len(ret) >= k /\ ret[k] = ErrCanceled)

\* The number of newline characters of a message.
NewlineCount(msg) == Cardinality({ k \in 1..Len(msg) : msg[k] = "\n" })

\* C18: the message handed to the write is the lines of the batch's samples
\* in batch order, separated by single newlines and ended by exactly one:
\* n samples make n newlines; the message stays the same from attempt to
\* attempt, and it is the message written.
C18_MessageFormat ==
    [][ /\ spc' = "write" =>
              /\ Len(metricStrings') = Len(batch')
              /\ \A j \in 1..Len(batch') : metricStrings'[j] \in String(batch'[j])
              /\ str' = Join(metricStrings', "\n") \o <<"\n">>
              /\ Lines(str') = metricStrings'
              /\ NewlineCount(str') = Len(batch')
        /\ (spc = "write" /\ spc' = "write") => str' = str
        /\ Len(written') > Len(written) =>
              /\ written'[Len(written')].msg = str
              /\ written'[Len(written')].batch = batch
      ]_vars

\* A message of two samples, with two newlines, was written.
C18_Witness ==
    /\ written # << >> /\ Len(written[1].batch) = 2
    /\ NewlineCount(written[1].msg) = 2

\* C19: Submit returns the cancellation error only while it holds no sample
\* of the batch it is forming: every sample it received has been handed to
\* the write step.
C19_NoSampleDiscarded ==
    SubmitCancelled =>
        /\ batch = << >>
        /\ Seqs(deqLog) \subseteq Seqs(Concat(batches))

\* C20: once Submit's token has fired, Submit receives no sample, and from
\* its first select it goes nowhere but to its return.
C20_NoBatchAfterCancel ==
    [][ ctxDone =>
          /\ deqLog' = deqLog
          /\ spc = "select" => spc' \in {"select", "returned"}
      ]_vars

\* C16: in the client NewClient returns, each of buffer capacity, batch size
\* and attempt limit is the default (1000, 1, 3) where the option was 0 or
\* not given and the given value otherwise, and the channel made has the
\* buffer capacity.
C16_Defaults ==
    made.client # NoClient =>
        /\ made.client.MaxBufferSize =
              IF opts.MaxBufferSize = 0 THEN 1000 ELSE opts.MaxBufferSize
        /\ made.client.MaxMetricsPerMessage =
              IF opts.MaxMetricsPerMessage = 0 THEN 1
              ELSE opts.MaxMetricsPerMessage
        /\ made.client.MaxTries =
              IF opts.MaxTries = 0 THEN 3 ELSE opts.MaxTries
        /\ made.cap = made.client.MaxBufferSize

\* A client made with the buffer capacity and batch size not given and an
\* attempt limit of 2.
C16_Witness ==
    /\ made.client # NoClient
    /\ opts.MaxBufferSize = 0 /\ opts.MaxMetricsPerMessage = 0
    /\ opts.MaxTries = 2 /\ made.cap = 1000

\* C17: NewClient returns ErrNoAddress and no client exactly when it was
\* given neither a connection nor an address; given at least one of them it
\* returns a client and no error.
C17_NoAddress ==
    made # NoResult =>
        IF opts.Conn = NilConn /\ opts.Addr = ""
        THEN made.err = ErrNoAddress /\ made.client = NoClient
        ELSE made.err = Nil /\ made.client # NoClient /\ ~made.panic

\* C11: deriving a child never changes the name of an identity or of a
\* Metric built from one: each still has the name it was made with, and
\* every line serialised for a Metric carries that name.
C11_NamesKept ==
    /\ \A k \in 1..Len(metas) : NameOf(metas[k].Name) = metas[k].was
    /\ \A q \in 1..Len(queued) :
          /\ NameOf(queued[q].Name) = queued[q].was
          /\ \A x \in lines[q] : x.name = queued[q].was

\* C15: two serialisations of one sample, with the same name, tags, value
\* and timestamp, give the same line.
C15_OneLine ==
    \A q \in 1..Len(queued) :
        \A x, y \in lines[q] : x.name = y.name => x.line = y.line

\* C21: whenever Submit is about to write, the client has a stream: no
\* client NewClient returned reaches the write with a nil Conn.
C21_StreamPresent ==
    spc = "write" => c # NoClient /\ c.Conn # NilConn

\* C22: in every client NewClient returns, the buffer capacity, the batch
\* size and the attempt limit are at least 1, whatever integers the options
\* were.
C22_PositiveOptions ==
    made.client # NoClient =>
        /\ made.client.MaxBufferSize >= 1
        /\ made.client.MaxMetricsPerMessage >= 1
        /\ made.client.MaxTries >= 1

====
